---- MODULE Spec2Model ----
(***************************************************************************)
(* Model of dnmfx/optimize.py: dnmf(), get_x() and update().               *)
(*                                                                         *)
(* Conventions.                                                            *)
(*  - Components are numbered 1..num_components (the position of their     *)
(*    description in component_descriptions); frames are numbered from 0   *)
(*    as in the code.                                                      *)
(*  - Geometry is one-dimensional: a bounding box is an offset and a size  *)
(*    on a line of pixels.                                                 *)
(*  - Numbers are fixed point.  Logits are integers; sigmoid values are    *)
(*    tenths; sequence values and reconstructions are hundredths;          *)
(*    gradients are tenths of a logit unit.                                *)
(*  - A raised exception ends the call: pc = "raised", err names it.       *)
(***************************************************************************)
EXTENDS Integers, Sequences, FiniteSets

\* ---------------------------------------------------------------- bounds
MaxFrames == 2
MaxComponents == 2

MaxIterations == {1, 2}
Offsets == {0, 1}
Sizes == {1, 2}
ImageWidth == 1 + 2
StepSizes == {1, 2}
MinLosses == {0, 2000}
LogEverys == {1, 2}
Seeds == {0, 1}
ClockSeeds == {2, 3}
None == 0 - 1

Boxes == [offset : Offsets, size : Sizes]

RECURSIVE SeqsUpTo(_, _)
SeqsUpTo(S, n) ==
    IF n = 0 THEN {<<>>}
    ELSE LET shorter == SeqsUpTo(S, n - 1)
         IN  shorter \cup {Append(s, x) : s \in {t \in shorter : Len(t) = n - 1}, x \in S}

VARIABLES
    \* arguments of dnmf
    sequence,                \* sequence[t][pixel], t in 0..num_frames-1
    component_descriptions,  \* list of bounding boxes
    parameters,              \* [max_iteration, batch_size, step_size, min_loss]
    log_every,
    log_gradients,
    random_seed,             \* None or an integer
    \* process state outside dnmf
    rng,                     \* Python's module-level random generator: values drawn so far
    calls,                   \* number of calls of dnmf made so far
    prev,                    \* what the previous call sampled and returned
    \* locals of the running call
    pc,
    err,
    seed,                    \* random_seed after line 59-60
    groups,
    H_logits,
    W_logits,
    B_logits,
    grads,                   \* grad_H_logits, grad_W_logits, grad_B_logits
    log,                     \* log.iteration_logs
    iteration,
    i,
    total_loss,              \* total_loss_per_connected_component
    average_loss,
    result,
    \* history of the running call
    iter_start,              \* the logits when the current iteration began
    plan,                    \* group -> the sample drawn for it this iteration
    visits,                  \* groups in the order visited this iteration
    losses,                  \* the losses returned this iteration, in order
    trace,                   \* every sample drawn by this call, in order
    num_updates              \* calls of update() made by this call

inputs == <<sequence, component_descriptions, parameters, log_every,
            log_gradients, random_seed>>
locals == <<pc, err, seed, groups, H_logits, W_logits, B_logits, grads, log,
            iteration, i, total_loss, average_loss, result>>
history == <<iter_start, plan, visits, losses, trace, num_updates>>
vars == <<inputs, rng, calls, prev, locals, history>>

\* ------------------------------------------------------------ small helpers
Min(S) == CHOOSE x \in S : \A y \in S : x <= y

RECURSIVE SortedSeq(_)
SortedSeq(S) ==
    IF S = {} THEN <<>> ELSE <<Min(S)>> \o SortedSeq(S \ {Min(S)})

RECURSIVE SumSeq(_)
SumSeq(s) == IF s = <<>> THEN 0 ELSE Head(s) + SumSeq(Tail(s))

Range(s) == {s[k] : k \in DOMAIN s}

RemoveAt(s, j) == SubSeq(s, 1, j - 1) \o SubSeq(s, j + 1, Len(s))

Clamp(z, lo, hi) == IF z < lo THEN lo ELSE IF z > hi THEN hi ELSE z

num_frames == Len(sequence)
num_components == Len(component_descriptions)
num_groups == Len(groups)
Components == 1..num_components
FrameIds == 0..(num_frames - 1)

\* sequence.shape[0] frames; frame t is stored at position t + 1
Frame(seq, t) == seq[t + 1]

\* ------------------------------------------------------------------ groups
\* two axis-aligned boxes overlap iff their ranges intersect
Overlap(a, b) ==
    /\ a.offset < b.offset + b.size
    /\ b.offset < a.offset + a.size

RECURSIVE Connected(_, _)
Connected(descs, S) ==
    LET more == S \cup {d \in DOMAIN descs : \E c \in S : Overlap(descs[c], descs[d])}
    IN  IF more = S THEN S ELSE Connected(descs, more)

\* the connectivity classes of the overlap graph, as a list of lists
get_groups(descs) ==
    LET class(c) == Connected(descs, {c})
        leaders == {c \in DOMAIN descs : c = Min(class(c))}
        order == SortedSeq(leaders)
    IN  [g \in 1..Len(order) |-> SortedSeq(class(order[g]))]

\* ---------------------------------------------------------------- sampling
\* every element drawn moves the generator on; it never returns to a state
\* it has left
Advance(r) == r + 1

RECURSIVE AdvanceBy(_, _)
AdvanceBy(r, k) == IF k = 0 THEN r ELSE AdvanceBy(Advance(r), k - 1)

\* the selections of k distinct elements of the population, in selection order
RECURSIVE Draws(_, _)
Draws(population, k) ==
    IF k = 0 THEN {<<>>}
    ELSE UNION {{<<population[j]>> \o rest : rest \in Draws(RemoveAt(population, j), k - 1)} :
                   j \in 1..Len(population)}

\* a mis-sampler that draws with replacement and so accepts any k
SampleWithReplacement(r, population, k) ==
    IF Len(population) = 0 /\ k > 0
    THEN {[ok |-> FALSE, value |-> <<>>, rng |-> r]}
    ELSE {[ok |-> TRUE, value |-> v, rng |-> AdvanceBy(r, k)] :
             v \in [1..k -> Range(population)]}

\* random.sample(population, k): what the call can give from generator
\* state r. ValueError when k exceeds the population; otherwise any
\* selection of k distinct elements, the generator moved on
Sample(r, population, k) ==
    IF k > Len(population) \/ k < 0
    THEN {[ok |-> FALSE, value |-> <<>>, rng |-> r]}
    ELSE {[ok |-> TRUE, value |-> v, rng |-> AdvanceBy(r, k)] :
             v \in Draws(population, k)}

\* ---------------------------------------------------------------- numerics
\* logistic sigmoid in tenths: 0.12 0.27 0.50 0.73 0.88, saturating
SigmoidTable == <<1, 3, 5, 7, 9>>
sigmoid1(z) == SigmoidTable[Clamp(z, -2, 2) + 3]
\* sigmoid applied elementwise to a tensor of logits
sigmoid(T) == [c \in DOMAIN T |-> [k \in DOMAIN T[c] |-> sigmoid1(T[c][k])]]
\* s * (1 - s) in hundredths
dsigmoid1(z) == sigmoid1(z) * (10 - sigmoid1(z))

\* initial logits: small values determined by the seed and the position
InitVal(sd, k) == (((sd + 1) * (k + 2)) % 3) - 1

initialize_normal(n, frames, size, sd) ==
    LET sz == IF size = None THEN 0 ELSE size
    IN  [H |-> [c \in 1..n |-> [p \in 1..sz |-> InitVal(sd, c * sz + p)]],
         W |-> [c \in 1..n |-> [t \in 0..(frames - 1) |-> InitVal(sd, 7 + c * frames + t)]],
         B |-> [c \in 1..n |-> [p \in 1..sz |-> InitVal(sd, 13 + c * sz + p)]]]

\* get_x: the data of the given frames inside the bounding box,
\* x[k][p] for the k-th sampled frame and the p-th pixel of the box
get_x(seq, frames, bounding_box) ==
    [k \in 1..Len(frames) |->
        [p \in 1..bounding_box.size |-> Frame(seq, frames[k])[bounding_box.offset + p]]]

\* ------------------------------------------------------- loss and gradient
ZeroLike(T) == [c \in DOMAIN T |-> [k \in DOMAIN T[c] |-> 0]]

\* l2_loss_grad(H_logits, W_logits, B_logits, x, component, frame_indices):
\* x_hat = s(H[c]) * s(W[c, frames]) + s(B[c]); loss = mean of e^2 / 2 with
\* e = x_hat - x; the gradients are zero outside component c
l2_loss_grad(H, W, B, x, c, frames) ==
    LET n == Len(frames)
        P == DOMAIN H[c]
        sz == Cardinality(P)
        sH == [p \in P |-> sigmoid1(H[c][p])]
        sW == [k \in 1..n |-> sigmoid1(W[c][frames[k]])]
        sB == [p \in P |-> sigmoid1(B[c][p])]
        \* the residual x_hat - x, in hundredths
        e == [k \in 1..n |-> [p \in P |-> sH[p] * sW[k] + 10 * sB[p] - x[k][p]]]
        squares == SumSeq([k \in 1..n |-> SumSeq([p \in 1..sz |-> e[k][p] * e[k][p]])])
        gH == [p \in P |->
                (SumSeq([k \in 1..n |-> e[k][p] * sW[k]]) * dsigmoid1(H[c][p]))
                    \div (n * 10000)]
        gB == [p \in P |->
                (SumSeq([k \in 1..n |-> e[k][p]]) * dsigmoid1(B[c][p]))
                    \div (n * 1000)]
        gWk == [k \in 1..n |->
                (SumSeq([p \in 1..sz |-> e[k][p] * sH[p]]) * dsigmoid1(W[c][frames[k]]))
                    \div (sz * 10000)]
        gW == [t \in DOMAIN W[c] |->
                SumSeq([k \in 1..n |-> IF frames[k] = t THEN gWk[k] ELSE 0])]
    IN  [loss |-> IF n = 0 \/ sz = 0 THEN 0 ELSE squares \div (2 * n * sz),
         grad_H |-> [ZeroLike(H) EXCEPT ![c] = gH],
         grad_W |-> [ZeroLike(W) EXCEPT ![c] = gW],
         grad_B |-> [ZeroLike(B) EXCEPT ![c] = gB]]

\* param - step_size * grad, elementwise
Descend(T, G, step_size) ==
    [c \in DOMAIN T |-> [k \in DOMAIN T[c] |-> T[c][k] - step_size * G[c][k]]]

\* a step that forgets the gradient
updateNoGrad(H, W, B, grad_H, grad_W, grad_B, step_size) ==
    [H |-> Descend(H, [c \in DOMAIN H |-> [k \in DOMAIN H[c] |-> 1]], step_size),
     W |-> Descend(W, grad_W, step_size),
     B |-> Descend(B, grad_B, step_size)]

update(H, W, B, grad_H, grad_W, grad_B, step_size) ==
    [H |-> Descend(H, grad_H, step_size),
     W |-> Descend(W, grad_W, step_size),
     B |-> Descend(B, grad_B, step_size)]

\* lines 97-120 for one sampled (component, frame_indices):
\* gather x, compute loss and gradient, update the estimate
GroupBody(H, W, B, seq, descs, step_size, component, frame_indices) ==
    LET x == get_x(seq, frame_indices, descs[component])
        lg == l2_loss_grad(H, W, B, x, component, frame_indices)
        up == update(H, W, B, lg.grad_H, lg.grad_W, lg.grad_B, step_size)
    IN  [loss |-> lg.loss,
         grad_H |-> lg.grad_H, grad_W |-> lg.grad_W, grad_B |-> lg.grad_B,
         H |-> up.H, W |-> up.W, B |-> up.B]

\* line 153
Returned(H, W, B, lg) ==
    [H |-> sigmoid(H), W |-> sigmoid(W), B |-> sigmoid(B), log |-> lg]

NoError == [kind |-> "none", line |-> 0]
Raise(kind, line) == [kind |-> kind, line |-> line]
NoGrads == [H |-> <<>>, W |-> <<>>, B |-> <<>>]
NoPrev == [trace |-> <<>>, result |-> <<>>, kind |-> "none",
           logits |-> NoGrads, init |-> NoGrads]

\* ------------------------------------------------------------------- Init
\* the observed data, in hundredths
SequenceOf(frames) ==
    [t1 \in 1..frames |-> [q \in 1..ImageWidth |-> 50 * ((t1 + q) % 3)]]

Init ==
    /\ \E frames \in 0..MaxFrames : sequence = SequenceOf(frames)
    /\ component_descriptions \in SeqsUpTo(Boxes, MaxComponents)
    /\ parameters \in [max_iteration : MaxIterations, batch_size : 1..(MaxFrames + 1),
                       step_size : StepSizes, min_loss : MinLosses]
    /\ log_every \in LogEverys
    /\ log_gradients \in BOOLEAN
    /\ random_seed \in Seeds \cup {None}
    /\ rng = 0
    /\ calls = 0
    /\ prev = NoPrev
    /\ pc = "idle"
    /\ err = NoError
    /\ seed = None
    /\ groups = <<>>
    /\ H_logits = <<>>
    /\ W_logits = <<>>
    /\ B_logits = <<>>
    /\ grads = NoGrads
    /\ log = <<>>
    /\ iteration = None
    /\ i = None
    /\ total_loss = 0
    /\ average_loss = None
    /\ result = <<>>
    /\ iter_start = NoGrads
    /\ plan = <<>>
    /\ visits = <<>>
    /\ losses = <<>>
    /\ trace = <<>>
    /\ num_updates = 0

\* ---------------------------------------------------------------- actions
Ended == pc \in {"raised", "returned"}

LogitsNow == [H |-> H_logits, W |-> W_logits, B |-> B_logits]

\* the caller invokes dnmf with the same arguments (lines 13-19); the
\* module-level random generator keeps its state between calls
Call ==
    /\ pc = "idle" \/ Ended
    /\ calls' = calls + 1
    /\ prev' = IF calls = 0 THEN NoPrev
               ELSE [trace |-> trace, result |-> result, kind |-> err.kind,
                     logits |-> LogitsNow, init |-> iter_start]
    /\ pc' = "setup"
    /\ err' = NoError
    /\ seed' = None
    /\ groups' = <<>>
    /\ H_logits' = <<>>
    /\ W_logits' = <<>>
    /\ B_logits' = <<>>
    /\ grads' = NoGrads
    /\ log' = <<>>
    /\ iteration' = None
    /\ i' = None
    /\ total_loss' = 0
    /\ average_loss' = None
    /\ result' = <<>>
    /\ iter_start' = NoGrads
    /\ plan' = <<>>
    /\ visits' = <<>>
    /\ losses' = <<>>
    /\ trace' = <<>>
    /\ num_updates' = 0
    /\ UNCHANGED <<inputs, rng>>

\* lines 62-69: all bounding boxes have the size of the first
SameSizes(descs) == \A k \in DOMAIN descs : descs[k].size = descs[1].size
component_size(descs) == IF Len(descs) = 0 THEN None ELSE descs[1].size

\* lines 59-60: the seed given, or one derived from the clock
SeedChoices == IF random_seed = None THEN ClockSeeds ELSE {random_seed}

\* lines 53-69 when two descriptions differ in size: the assertion fails
SetupFails ==
    /\ pc = "setup"
    /\ ~SameSizes(component_descriptions)
    /\ groups' = get_groups(component_descriptions)
    /\ \E sd \in SeedChoices : seed' = sd
    /\ pc' = "raised"
    /\ err' = Raise("AssertionError", 66)
    /\ UNCHANGED <<inputs, rng, calls, prev, H_logits, W_logits, B_logits, grads,
                   log, iteration, i, total_loss, average_loss, result, history>>

\* lines 53-80: groups, seed, size check, initial logits, empty log
SetupOk ==
    /\ pc = "setup"
    /\ SameSizes(component_descriptions)
    /\ groups' = get_groups(component_descriptions)
    /\ \E sd \in SeedChoices :
          /\ seed' = sd
          /\ LET init == initialize_normal(num_components, num_frames,
                                           component_size(component_descriptions), sd)
             IN  /\ H_logits' = init.H
                 /\ W_logits' = init.W
                 /\ B_logits' = init.B
    /\ log' = <<>>
    /\ pc' = "for"
    /\ UNCHANGED <<inputs, rng, calls, prev, err, grads, iteration, i, total_loss,
                   average_loss, result, history>>

\* lines 82-84: the next iteration begins
NextIteration ==
    /\ pc = "for"
    /\ iteration + 1 < parameters.max_iteration
    /\ iteration' = iteration + 1
    /\ total_loss' = 0
    /\ i' = 1
    /\ pc' = "groups"
    /\ iter_start' = LogitsNow
    /\ plan' = <<>>
    /\ visits' = <<>>
    /\ losses' = <<>>
    /\ UNCHANGED <<inputs, rng, calls, prev, err, seed, groups, H_logits, W_logits,
                   B_logits, grads, log, average_loss, result, trace, num_updates>>

FrameList == [k \in 1..num_frames |-> k - 1]

\* lines 86-95 when random.sample refuses the batch: ValueError
SampleFails ==
    /\ pc = "groups"
    /\ i <= num_groups
    /\ \E cs \in Sample(rng, groups[i], 1) :
          \E fs \in Sample(cs.rng, FrameList, parameters.batch_size) :
             /\ ~fs.ok
             /\ rng' = cs.rng
    /\ pc' = "raised"
    /\ err' = Raise("ValueError", 93)
    /\ UNCHANGED <<inputs, calls, prev, seed, groups, H_logits, W_logits, B_logits,
                   grads, log, iteration, i, total_loss, average_loss, result,
                   history>>

\* lines 86-122 for group i: sample a component and a frame batch, compute
\* loss and gradient, add the loss, update; line 121 then reads the name
\* timer, which nothing defines: NameError
GroupStep ==
    /\ pc = "groups"
    /\ i <= num_groups
    /\ \E cs \in Sample(rng, groups[i], 1) :
          \E fs \in Sample(cs.rng, FrameList, parameters.batch_size) :
             LET component == cs.value[1]
                 body == GroupBody(H_logits, W_logits, B_logits, sequence,
                                   component_descriptions, parameters.step_size,
                                   component, fs.value)
                 drawn == [component |-> component, frames |-> fs.value]
             IN  /\ fs.ok
                 /\ rng' = fs.rng
                 /\ total_loss' = total_loss + body.loss
                 /\ grads' = [H |-> body.grad_H, W |-> body.grad_W, B |-> body.grad_B]
                 /\ H_logits' = body.H
                 /\ W_logits' = body.W
                 /\ B_logits' = body.B
                 /\ plan' = Append(plan, drawn)
                 /\ visits' = Append(visits, i)
                 /\ losses' = Append(losses, body.loss)
                 /\ trace' = Append(trace, drawn)
                 /\ num_updates' = num_updates + 1
    /\ pc' = "raised"
    /\ err' = Raise("NameError", 121)
    /\ UNCHANGED <<inputs, calls, prev, seed, groups, log, iteration, i,
                   average_loss, result, iter_start>>

\* lines 124-133 once the group loop is over: the timing record reads the
\* name time_loss, and otherwise line 133 reads total_loss_per_group;
\* nothing defines either: NameError
EndOfGroups ==
    /\ pc = "groups"
    /\ i > num_groups
    /\ pc' = "raised"
    /\ err' = IF iteration % log_every = 0
              THEN Raise("NameError", 127)
              ELSE Raise("NameError", 133)
    /\ UNCHANGED <<inputs, rng, calls, prev, seed, groups, H_logits, W_logits,
                   B_logits, grads, log, iteration, i, total_loss, average_loss,
                   result, history>>

FirstCall == calls = 0 /\ Call

\* a second call of dnmf in the same process, with the same arguments
SecondCall == calls = 1 /\ Call

Next ==
    \/ FirstCall
    \/ SetupFails
    \/ SetupOk
    \/ NextIteration
    \/ SampleFails
    \/ GroupStep
    \/ EndOfGroups

Spec == Init /\ [][Next]_vars

SpecTwice == Init /\ [][Next \/ SecondCall]_vars

\* ------------------------------------------------- the merge of the writes
\* every group of V (p[g] its sample) computes lines 97-120 from the
\* snapshot and writes the slices of its component
MergeWrites(start, p, V) ==
    LET bodies == [g \in V |->
                     GroupBody(start.H, start.W, start.B, sequence,
                               component_descriptions, parameters.step_size,
                               p[g].component, p[g].frames)]
        writer == [c \in DOMAIN start.H |-> {g \in V : p[g].component = c}]
        pick(c, field) ==
            IF writer[c] = {} THEN start[field][c]
            ELSE bodies[CHOOSE g \in writer[c] : TRUE][field][c]
        order == SortedSeq(V)
    IN  [H |-> [c \in DOMAIN start.H |-> pick(c, "H")],
         W |-> [c \in DOMAIN start.W |-> pick(c, "W")],
         B |-> [c \in DOMAIN start.B |-> pick(c, "B")],
         total |-> SumSeq([k \in 1..Len(order) |-> bodies[order[k]].loss])]

StateNow == [H |-> H_logits, W |-> W_logits, B |-> B_logits, total |-> total_loss]

\* ================================================================== claims
batch_size == parameters.batch_size
max_iteration == parameters.max_iteration

\* the configuration is inside the documented surface
ValidConfig ==
    /\ SameSizes(component_descriptions)
    /\ 1 <= batch_size
    /\ batch_size <= num_frames

ConfigError ==
    \/ ~SameSizes(component_descriptions)
    \/ batch_size > num_frames
    \/ num_frames = 0

\* an iteration was begun and control has left its group loop
IterationOver == iteration >= 0 /\ pc # "groups"

LogitsReady == pc \in {"for", "groups"} \/ (pc = "raised" /\ err.kind # "AssertionError")

SampledSoFar == {trace[k].component : k \in DOMAIN trace}

InitialLogits ==
    initialize_normal(num_components, num_frames,
                      component_size(component_descriptions), seed)

\* C1: a call with a valid configuration ends only by returning, either
\* after the first iteration whose average_loss is below min_loss or after
\* max_iteration iterations, and returns the sigmoid of its logits and
\* the log; it never ends in an error.
C1_StopsAndReturns ==
    (Ended /\ ValidConfig) =>
        /\ pc = "returned"
        /\ err.kind = "none"
        /\ average_loss < parameters.min_loss \/ iteration + 1 = max_iteration
        /\ result = Returned(H_logits, W_logits, B_logits, log)

\* C2: once the group loop of an iteration is over, average_loss is the
\* sum of the losses returned for the groups of that iteration divided by
\* num_groups.
C2_AverageLossIsMean ==
    (IterationOver /\ ValidConfig /\ num_groups > 0) =>
        /\ Len(losses) = num_groups
        /\ average_loss = SumSeq(losses) \div num_groups

\* C3: with no components a call ends by returning, as converged, an
\* empty result and the log; it raises nothing.
C3_NoComponentsReturns ==
    (Ended /\ num_components = 0 /\ num_frames > 0 /\ batch_size <= num_frames) =>
        /\ pc = "returned"
        /\ err.kind = "none"
        /\ result = Returned(<<>>, <<>>, <<>>, log)

\* C4: two calls with the same seed and the same arguments draw the same
\* sequence of (component, frame_indices) and end with the same logits.
C4_SameSeedSameSamples ==
    (calls = 2 /\ Ended /\ random_seed # None) =>
        /\ trace = prev.trace
        /\ LogitsNow = prev.logits

\* C5: in every iteration every group is visited exactly once, the
\* component sampled for a group is a member of it, and the frame batch is
\* batch_size pairwise distinct indices of [0, num_frames).
C5_EveryGroupVisitedOnce ==
    (IterationOver /\ ValidConfig) =>
        /\ Len(visits) = num_groups
        /\ Range(visits) = 1..num_groups
        /\ \A k \in DOMAIN visits :
              /\ plan[k].component \in Range(groups[visits[k]])
              /\ Len(plan[k].frames) = batch_size
              /\ Cardinality(Range(plan[k].frames)) = batch_size
              /\ Range(plan[k].frames) \subseteq FrameIds

\* the iterations begun so far that owe a lightweight record
LightweightDue ==
    {k \in 0..iteration : k % log_every = 0 /\ ~(k = 0 /\ log_gradients)}

\* C6: once the group loop of an iteration is over and the call has
\* ended, the log holds exactly one lightweight record for every iteration
\* whose index is a multiple of log_every (iteration 0 excepted under
\* log_gradients), carrying that index, in increasing order.
C6_OneRecordPerLoggedIteration ==
    (Ended /\ IterationOver /\ ValidConfig /\ num_groups > 0) =>
        LET light == SelectSeq(log, LAMBDA r : ~r.detailed)
        IN  /\ Len(light) = Cardinality(LightweightDue)
            /\ \A j \in DOMAIN light :
                  /\ light[j].iteration \in LightweightDue
                  /\ \A m \in DOMAIN light : m < j => light[m].iteration < light[j].iteration

\* no update has been applied and nothing has been returned
NothingDone ==
    /\ num_updates = 0
    /\ pc # "returned"
    /\ result = <<>>
    /\ LogitsReady => LogitsNow = [H |-> InitialLogits.H, W |-> InitialLogits.W,
                                   B |-> InitialLogits.B]

\* the call has a next step: it is about to be made, in its setup, at a
\* loop header with an iteration left, or inside the group loop
Running ==
    \/ pc \in {"idle", "setup", "groups"}
    \/ pc = "for" /\ iteration + 1 < max_iteration

\* C7: with sizes that differ, a batch larger than the sequence or an
\* empty sequence, a call applies no update and returns nothing, and the
\* only place it stops is a raised error.
C7_ConfigErrorsAreFatal ==
    ConfigError => (NothingDone /\ (Running \/ pc = "raised"))

C7_Witness ==
    /\ batch_size > num_frames
    /\ num_frames > 0
    /\ SameSizes(component_descriptions)
    /\ num_groups >= 1
    /\ pc = "raised"
    /\ err = Raise("ValueError", 93)
    /\ H_logits = InitialLogits.H

\* C8: under log_gradients a call with a valid configuration and at least
\* one group ends with a detailed record for iteration 0 whose gradients
\* are the gradients of the loss at the logits stored in the same record.
C8_DetailedRecordConsistent ==
    (Ended /\ ValidConfig /\ log_gradients /\ num_groups > 0) =>
        /\ Len(log) >= 1
        /\ log[1].detailed
        /\ log[1].iteration = 0
        /\ LET last == trace[Len(trace)]
               at == l2_loss_grad(log[1].H_logits, log[1].W_logits, log[1].B_logits,
                                  get_x(sequence, last.frames,
                                        component_descriptions[last.component]),
                                  last.component, last.frames)
           IN  /\ log[1].grad_H_logits = at.grad_H
               /\ log[1].grad_W_logits = at.grad_W
               /\ log[1].grad_B_logits = at.grad_B

\* the logits of every component never sampled are the initial ones
NeverSampledKeepInitial ==
    LogitsReady =>
        \A c \in Components \ SampledSoFar :
            /\ H_logits[c] = InitialLogits.H[c]
            /\ W_logits[c] = InitialLogits.W[c]
            /\ B_logits[c] = InitialLogits.B[c]

\* a step that calls update() subtracts step_size * grad and leaves the
\* logits of every component but the sampled one as they were
StepTouchesOnlySampled ==
    (num_updates' = num_updates + 1) =>
        LET c == trace'[Len(trace')].component
            step == parameters.step_size
        IN  /\ H_logits' = Descend(H_logits, grads'.H, step)
            /\ W_logits' = Descend(W_logits, grads'.W, step)
            /\ B_logits' = Descend(B_logits, grads'.B, step)
            /\ \A d \in Components \ {c} :
                  /\ H_logits'[d] = H_logits[d]
                  /\ W_logits'[d] = W_logits[d]
                  /\ B_logits'[d] = B_logits[d]

\* C9: every update step applies param - step_size * grad and changes
\* only the slices of the component sampled in that step; the logits of a
\* component never sampled stay at their initial values.
C9_UpdateTouchesOnlySampled ==
    [] NeverSampledKeepInitial /\ [][StepTouchesOnlySampled]_vars

C9_Witness ==
    /\ num_components = 2
    /\ num_updates = 1
    /\ \E c \in Components, d \in Components :
          /\ c # d
          /\ SampledSoFar = {c}
          /\ H_logits[c] # InitialLogits.H[c]
          /\ W_logits[c] # InitialLogits.W[c]
          /\ B_logits[c] # InitialLogits.B[c]
          /\ H_logits[d] = InitialLogits.H[d]
          /\ W_logits[d] = InitialLogits.W[d]

\* C10: once the group loop of an iteration is over, every group has
\* written, and the logits and the total loss are those of every group
\* computing from the snapshot taken when the iteration began and writing
\* its own component, so the order of the visits does not show.
C10_OrderIndependent ==
    (IterationOver /\ ValidConfig) =>
        /\ Range(visits) = 1..num_groups
        /\ StateNow = MergeWrites(iter_start, plan, Range(visits))

====
